---- MODULE Spec2Model ----
(***************************************************************************)
(* The gateway event loop of gateway-rs (src/src/gateway.rs): Gateway::run *)
(* races the shutdown listener, the semtech-udp runtime and the downlink   *)
(* channel; handle_udp_event forwards uplinks, handle_downlink runs the    *)
(* RX1/RX2 dispatch.  Every await of the source is a position of pc.       *)
(***************************************************************************)
EXTENDS Naturals, Sequences, FiniteSets

VARIABLES
    pc,            \* position of the Gateway task
    result,        \* what run has returned: "running", "Ok" or "Err"
    shutdown,      \* the triggered::Listener has fired
    evPending,     \* events waiting in udp_runtime
    dlPending,     \* packets waiting in the downlinks channel
    dlClosed,      \* every Sender of the downlinks channel is dropped
    uplinks,       \* content of the bounded uplinks channel
    upClosed,      \* the Receiver of the uplinks channel is dropped
    cur,           \* the event or downlink the running handler was given
    packet,        \* the LinkPacket held by the pending uplinks.send
    downlink_rx1,  \* transmit slot of window 1
    downlink_rx2,  \* transmit slot of window 2
    ret,           \* the Result a handler has returned to run
    elapsed,       \* seconds the dispatch being awaited has been pending
    endpoints      \* the KeyedUri deserializations made so far

vars == <<pc, result, shutdown, evPending, dlPending, dlClosed, uplinks,
          upClosed, cur, packet, downlink_rx1, downlink_rx2, ret, elapsed,
          endpoints>>

\* Bounds of the environment.
MaxPendingEvents == 2
MaxPendingDownlinks == 2
UplinkCap == 2
MaxEndpoints == 2

DOWNLINK_TIMEOUT_SECS == 5

MACS == {"mac_a", "mac_b"}

NoItem == [type |-> "none"]
NoPacket == [late |-> FALSE, mac |-> "none", present |-> FALSE]
NoSlot == [mac |-> "none", packet |-> NoPacket, attempts |-> 0, result |-> "none"]

\* semtech_udp::server_runtime::Event, as handle_udp_event matches it.
RxpkKinds == {"lorawan", "longfi", "malformed"}
RawKinds == {"PushData_rxpk", "PushData_empty", "Other"}
Events ==
    {[type |-> t] : t \in {"UnableToParseUdpFrame", "NewClient", "UpdateClient",
                           "NoClientWithMac"}}
    \cup {[type |-> "RawPacket", raw |-> r] : r \in RawKinds}
    \cup {[type |-> "PacketReceived", rxpk |-> k, gateway_mac |-> m] :
             k \in RxpkKinds, m \in MACS}

\* A downlink LinkPacket: its target and what each window renders to.
Renderings == {"frame", "none", "error"}
Downlinks ==
    {[type |-> "downlink", gateway_mac |-> m, rx1 |-> a, rx2 |-> b] :
        m \in MACS, a \in Renderings, b \in Renderings}

\* Result of Downlink::dispatch with a timeout.
TimingRejections == {"TooEarly", "TooLate"}
DispatchResults == {"Ok", "TooEarly", "TooLate", "AckOther", "Timeout", "Transport"}

\* LinkPacket::from_push_data: a conversion error, or a packet tagged with
\* the gateway the frame came from.
from_push_data(rxpk, gateway_mac) ==
    IF rxpk = "malformed"
    THEN [ok |-> FALSE, packet |-> NoItem]
    ELSE [ok |-> TRUE,
          packet |-> [type |-> "uplink", gateway_mac |-> gateway_mac, payload |-> rxpk]]

is_longfi(p) == p.payload = "longfi"

\* LinkPacket::to_pull_resp(use_rx2): Err, Ok(None) or Ok(Some(txpk)).
to_pull_resp(downlink, late) ==
    LET r == IF late THEN downlink.rx2 ELSE downlink.rx1 IN
    IF r = "error" THEN [ok |-> FALSE, txpk |-> NoPacket]
    ELSE IF r = "none" THEN [ok |-> TRUE, txpk |-> NoPacket]
    ELSE [ok |-> TRUE,
          txpk |-> [late |-> late, mac |-> downlink.gateway_mac, present |-> TRUE]]

\* UdpRuntime::prepare_empty_downlink
prepare_empty_downlink(mac) ==
    [mac |-> mac, packet |-> NoPacket, attempts |-> 0, result |-> "none"]

set_packet(slot, txpk) == [slot EXCEPT !.packet = txpk]

\* a dispatch(None): no timeout ever ends the wait
dispatch_resolves_no_timeout(r, t) == r # "Timeout"

\* dispatch(Some(Duration::from_secs(DOWNLINK_TIMEOUT_SECS))): the results the
\* await can resolve to after t seconds
dispatch_resolves(r, t) ==
    IF t >= DOWNLINK_TIMEOUT_SECS THEN r = "Timeout" ELSE r # "Timeout"

\* the slot once dispatch(..).await has been entered, and once it resolved
dispatch(slot) == [slot EXCEPT !.attempts = @ + 1]
resolve(slot, r) == [slot EXCEPT !.result = r]

Init ==
    /\ pc = "select"
    /\ result = "running"
    /\ shutdown = FALSE
    /\ evPending = 0
    /\ dlPending = 0
    /\ dlClosed = FALSE
    /\ uplinks = <<>>
    /\ upClosed = FALSE
    /\ cur = NoItem
    /\ packet = NoItem
    /\ downlink_rx1 = NoSlot
    /\ downlink_rx2 = NoSlot
    /\ ret = "none"
    /\ elapsed = 0
    /\ endpoints = <<>>

----
\* The environment: the shutdown trigger, forwarder clients, the router.

Trigger ==
    /\ ~shutdown
    /\ shutdown' = TRUE
    /\ UNCHANGED <<elapsed, endpoints,
                   pc, result, evPending, dlPending, dlClosed, uplinks, upClosed,
                   cur, packet, downlink_rx1, downlink_rx2, ret>>

UdpArrive ==
    /\ evPending < MaxPendingEvents
    /\ evPending' = evPending + 1
    /\ UNCHANGED <<elapsed, endpoints,
                   pc, result, shutdown, dlPending, dlClosed, uplinks, upClosed,
                   cur, packet, downlink_rx1, downlink_rx2, ret>>

DownlinkOffer ==
    /\ ~dlClosed
    /\ dlPending < MaxPendingDownlinks
    /\ dlPending' = dlPending + 1
    /\ UNCHANGED <<elapsed, endpoints,
                   pc, result, shutdown, evPending, dlClosed, uplinks, upClosed,
                   cur, packet, downlink_rx1, downlink_rx2, ret>>

DownlinkSendersDropped ==
    /\ ~dlClosed
    /\ dlClosed' = TRUE
    /\ UNCHANGED <<elapsed, endpoints,
                   pc, result, shutdown, evPending, dlPending, uplinks, upClosed,
                   cur, packet, downlink_rx1, downlink_rx2, ret>>

UplinkConsume ==
    /\ ~upClosed
    /\ uplinks # <<>>
    /\ uplinks' = Tail(uplinks)
    /\ UNCHANGED <<elapsed, endpoints,
                   pc, result, shutdown, evPending, dlPending, dlClosed, upClosed,
                   cur, packet, downlink_rx1, downlink_rx2, ret>>

UplinkReceiverDropped ==
    /\ ~upClosed
    /\ upClosed' = TRUE
    /\ uplinks' = <<>>
    /\ UNCHANGED <<elapsed, endpoints,
                   pc, result, shutdown, evPending, dlPending, dlClosed,
                   cur, packet, downlink_rx1, downlink_rx2, ret>>

----
\* a handler without the longfi guard
handle_udp_event_forward_longfi(event) ==
    IF event.type = "PacketReceived"
    THEN LET conv == from_push_data(event.rxpk, event.gateway_mac) IN
         IF conv.ok THEN [send |-> TRUE, packet |-> conv.packet]
         ELSE [send |-> FALSE, packet |-> NoItem]
    ELSE [send |-> FALSE, packet |-> NoItem]

\* a handler that tags every uplink with the same client
handle_udp_event_one_client(event) ==
    IF event.type = "PacketReceived"
    THEN LET conv == from_push_data(event.rxpk, "mac_a") IN
         IF conv.ok /\ is_longfi(conv.packet) THEN [send |-> FALSE, packet |-> NoItem]
         ELSE IF conv.ok THEN [send |-> TRUE, packet |-> conv.packet]
         ELSE [send |-> FALSE, packet |-> NoItem]
    ELSE [send |-> FALSE, packet |-> NoItem]

\* a handler that forwards the rxpk of a raw PushData
handle_udp_event_forward_raw(event) ==
    IF event.type = "PacketReceived"
    THEN LET conv == from_push_data(event.rxpk, event.gateway_mac) IN
         IF conv.ok /\ is_longfi(conv.packet) THEN [send |-> FALSE, packet |-> NoItem]
         ELSE IF conv.ok THEN [send |-> TRUE, packet |-> conv.packet]
         ELSE [send |-> FALSE, packet |-> NoItem]
    ELSE IF event.type = "RawPacket" /\ event.raw = "PushData_rxpk"
    THEN [send |-> TRUE, packet |-> from_push_data("lorawan", "mac_a").packet]
    ELSE [send |-> FALSE, packet |-> NoItem]

\* Gateway::handle_udp_event, up to its only await (uplinks.send): whether the
\* event yields a packet to send upstream.
handle_udp_event(event) ==
    IF event.type = "PacketReceived"
    THEN LET conv == from_push_data(event.rxpk, event.gateway_mac) IN
         IF conv.ok /\ is_longfi(conv.packet) THEN [send |-> FALSE, packet |-> NoItem]
         ELSE IF conv.ok THEN [send |-> TRUE, packet |-> conv.packet]
         ELSE [send |-> FALSE, packet |-> NoItem]
    ELSE [send |-> FALSE, packet |-> NoItem]

\* Sender::send resolves when the channel is closed or has capacity.
send_ready == upClosed \/ Len(uplinks) < UplinkCap

\* a fallback that also retries after a timeout
IsTimingRejection_retry_timeout(r) == r \in {"TooEarly", "TooLate", "Timeout"}

\* the match arms that send the downlink to the rx2 slot
IsTimingRejection(r) == r \in {"TooEarly", "TooLate"}

\* a handler that sends whatever a successful rendering returned
handle_downlink_send_none(downlink) ==
    LET rx1 == prepare_empty_downlink(downlink.gateway_mac)
        rx2 == prepare_empty_downlink(downlink.gateway_mac)
        r == to_pull_resp(downlink, FALSE)
    IN  IF ~r.ok
        THEN [pc |-> "downlink_ret", ret |-> "Err", rx1 |-> rx1, rx2 |-> rx2]
        ELSE [pc |-> "rx1_dispatch", ret |-> "none",
              rx1 |-> dispatch(set_packet(rx1, r.txpk)), rx2 |-> rx2]

\* a handler that dispatches both windows at once
handle_downlink_both_windows(downlink) ==
    LET rx1 == prepare_empty_downlink(downlink.gateway_mac)
        rx2 == prepare_empty_downlink(downlink.gateway_mac)
        r == to_pull_resp(downlink, FALSE)
        l == to_pull_resp(downlink, TRUE)
    IN  IF ~r.ok
        THEN [pc |-> "downlink_ret", ret |-> "Err", rx1 |-> rx1, rx2 |-> rx2]
        ELSE IF ~r.txpk.present
        THEN [pc |-> "downlink_ret", ret |-> "Ok", rx1 |-> rx1, rx2 |-> rx2]
        ELSE [pc |-> "rx1_dispatch", ret |-> "none",
              rx1 |-> dispatch(set_packet(rx1, r.txpk)),
              rx2 |-> dispatch(set_packet(rx2, l.txpk))]

\* a handler that addresses every slot to the same client
handle_downlink_one_client(downlink) ==
    LET rx1 == prepare_empty_downlink("mac_a")
        rx2 == prepare_empty_downlink("mac_a")
        r == to_pull_resp(downlink, FALSE)
    IN  IF ~r.ok
        THEN [pc |-> "downlink_ret", ret |-> "Err", rx1 |-> rx1, rx2 |-> rx2]
        ELSE IF ~r.txpk.present
        THEN [pc |-> "downlink_ret", ret |-> "Ok", rx1 |-> rx1, rx2 |-> rx2]
        ELSE [pc |-> "rx1_dispatch", ret |-> "none",
              rx1 |-> dispatch(set_packet(rx1, r.txpk)), rx2 |-> rx2]

\* Gateway::handle_downlink up to the rx1 dispatch
handle_downlink(downlink) ==
    LET rx1 == prepare_empty_downlink(downlink.gateway_mac)
        rx2 == prepare_empty_downlink(downlink.gateway_mac)
        r == to_pull_resp(downlink, FALSE)
    IN  IF ~r.ok
        THEN [pc |-> "downlink_ret", ret |-> "Err", rx1 |-> rx1, rx2 |-> rx2]
        ELSE IF ~r.txpk.present
        THEN [pc |-> "downlink_ret", ret |-> "Ok", rx1 |-> rx1, rx2 |-> rx2]
        ELSE [pc |-> "rx1_dispatch", ret |-> "none",
              rx1 |-> dispatch(set_packet(rx1, r.txpk)), rx2 |-> rx2]

\* a fallback that renders the rx2 frame with the rx1 variant
rx1_resolved_not_late(downlink, rx1, rx2) ==
    IF IsTimingRejection(rx1.result)
    THEN LET r == to_pull_resp(downlink, FALSE) IN
         IF ~r.ok
         THEN [pc |-> "downlink_ret", ret |-> "Err", rx1 |-> rx1, rx2 |-> rx2]
         ELSE IF r.txpk.present
         THEN [pc |-> "rx2_dispatch", ret |-> "none", rx1 |-> rx1,
               rx2 |-> dispatch(set_packet(rx2, r.txpk))]
         ELSE [pc |-> "downlink_ret", ret |-> "Ok", rx1 |-> rx1, rx2 |-> rx2]
    ELSE [pc |-> "downlink_ret", ret |-> "Ok", rx1 |-> rx1, rx2 |-> rx2]

\* Gateway::handle_downlink from the result of the rx1 dispatch to the rx2
\* dispatch or the return
rx1_resolved(downlink, rx1, rx2) ==
    IF IsTimingRejection(rx1.result)
    THEN LET r == to_pull_resp(downlink, TRUE) IN
         IF ~r.ok
         THEN [pc |-> "downlink_ret", ret |-> "Err", rx1 |-> rx1, rx2 |-> rx2]
         ELSE IF r.txpk.present
         THEN [pc |-> "rx2_dispatch", ret |-> "none", rx1 |-> rx1,
               rx2 |-> dispatch(set_packet(rx2, r.txpk))]
         ELSE [pc |-> "downlink_ret", ret |-> "Ok", rx1 |-> rx1, rx2 |-> rx2]
    ELSE [pc |-> "downlink_ret", ret |-> "Ok", rx1 |-> rx1, rx2 |-> rx2]

\* an rx2 arm that returns the dispatch error
rx2_resolved_propagate(r) == IF r = "Ok" THEN "Ok" ELSE "Err"

\* Gateway::handle_downlink: both arms of the match on the rx2 dispatch
rx2_resolved(r) == "Ok"

----
\* Gateway::run and the handlers it awaits.

\* a select that polls the shutdown listener after the other two branches
SelectShutdown_polled_last ==
    /\ pc = "select"
    /\ shutdown
    /\ evPending = 0
    /\ dlPending = 0
    /\ pc' = "done"
    /\ result' = "Ok"
    /\ UNCHANGED <<elapsed, endpoints,
                   shutdown, evPending, dlPending, dlClosed, uplinks, upClosed,
                   cur, packet, downlink_rx1, downlink_rx2, ret>>

\* a shutdown that is raced against the running handler
SelectShutdown_cancels ==
    /\ pc # "done"
    /\ shutdown
    /\ pc' = "done"
    /\ result' = "Ok"
    /\ UNCHANGED <<elapsed, endpoints, shutdown, evPending, dlPending, dlClosed,
                   uplinks, upClosed, cur, packet, downlink_rx1, downlink_rx2, ret>>

SelectShutdown ==
    /\ pc = "select"
    /\ shutdown
    /\ pc' = "done"
    /\ result' = "Ok"
    /\ UNCHANGED <<elapsed, endpoints,
                   shutdown, evPending, dlPending, dlClosed, uplinks, upClosed,
                   cur, packet, downlink_rx1, downlink_rx2, ret>>

\* a select whose losing downlinks branch has already taken its packet
SelectEvent_drops_downlink ==
    /\ pc = "select"
    /\ evPending > 0
    /\ \E event \in Events :
         LET h == handle_udp_event(event) IN
         /\ cur' = event
         /\ packet' = h.packet
         /\ pc' = IF h.send THEN "uplink_send" ELSE "event_ret"
         /\ ret' = IF h.send THEN "none" ELSE "Ok"
    /\ evPending' = evPending - 1
    /\ dlPending' = IF dlPending > 0 THEN dlPending - 1 ELSE dlPending
    /\ UNCHANGED <<elapsed, endpoints, result, shutdown, dlClosed, uplinks, upClosed,
                   downlink_rx1, downlink_rx2>>

SelectEvent ==
    /\ pc = "select"
    /\ evPending > 0
    /\ \E event \in Events :
         LET h == handle_udp_event(event) IN
         /\ cur' = event
         /\ packet' = h.packet
         /\ pc' = IF h.send THEN "uplink_send" ELSE "event_ret"
         /\ ret' = IF h.send THEN "none" ELSE "Ok"
    /\ evPending' = evPending - 1
    /\ UNCHANGED <<elapsed, endpoints,
                   result, shutdown, dlPending, dlClosed, uplinks, upClosed,
                   downlink_rx1, downlink_rx2>>

\* a send whose failure is returned with `?`
UplinkSend_err_on_closed ==
    /\ pc = "uplink_send"
    /\ send_ready
    /\ uplinks' = IF upClosed THEN uplinks ELSE Append(uplinks, packet)
    /\ packet' = NoItem
    /\ pc' = "event_ret"
    /\ ret' = IF upClosed THEN "Err" ELSE "Ok"
    /\ UNCHANGED <<elapsed, endpoints, result, shutdown, evPending, dlPending,
                   dlClosed, upClosed, cur, downlink_rx1, downlink_rx2>>

UplinkSend ==
    /\ pc = "uplink_send"
    /\ send_ready
    /\ uplinks' = IF upClosed THEN uplinks ELSE Append(uplinks, packet)
    /\ packet' = NoItem
    /\ pc' = "event_ret"
    /\ ret' = "Ok"
    /\ UNCHANGED <<elapsed, endpoints,
                   result, shutdown, evPending, dlPending, dlClosed, upClosed,
                   cur, downlink_rx1, downlink_rx2>>

EventReturn ==
    /\ pc = "event_ret"
    /\ pc' = IF ret = "Err" THEN "done" ELSE "select"
    /\ result' = IF ret = "Err" THEN "Err" ELSE result
    /\ cur' = NoItem
    /\ ret' = "none"
    /\ UNCHANGED <<elapsed, endpoints,
                   shutdown, evPending, dlPending, dlClosed, uplinks, upClosed,
                   packet, downlink_rx1, downlink_rx2>>

SelectDownlink ==
    /\ pc = "select"
    /\ dlPending > 0
    /\ \E downlink \in Downlinks :
         LET s == handle_downlink(downlink) IN
         /\ cur' = downlink
         /\ pc' = s.pc
         /\ ret' = s.ret
         /\ downlink_rx1' = s.rx1
         /\ downlink_rx2' = s.rx2
    /\ dlPending' = dlPending - 1
    /\ UNCHANGED <<elapsed, endpoints,
                   result, shutdown, evPending, dlClosed, uplinks, upClosed, packet>>

\* a loop that ends when the downlinks channel is closed
SelectDownlinkClosed_returns ==
    /\ pc = "select"
    /\ dlClosed
    /\ dlPending = 0
    /\ pc' = "done"
    /\ result' = "Ok"
    /\ UNCHANGED <<elapsed, endpoints, shutdown, evPending, dlPending, dlClosed,
                   uplinks, upClosed, cur, packet, downlink_rx1, downlink_rx2, ret>>

SelectDownlinkClosed ==
    /\ pc = "select"
    /\ dlClosed
    /\ dlPending = 0
    /\ pc' = "closed_warn"
    /\ UNCHANGED <<elapsed, endpoints,
                   result, shutdown, evPending, dlPending, dlClosed, uplinks,
                   upClosed, cur, packet, downlink_rx1, downlink_rx2, ret>>

Continue ==
    /\ pc = "closed_warn"
    /\ pc' = "select"
    /\ UNCHANGED <<elapsed, endpoints,
                   result, shutdown, evPending, dlPending, dlClosed, uplinks,
                   upClosed, cur, packet, downlink_rx1, downlink_rx2, ret>>

\* a second passes while a dispatch is awaited
Tick ==
    /\ pc \in {"rx1_dispatch", "rx2_dispatch"}
    /\ elapsed < DOWNLINK_TIMEOUT_SECS
    /\ elapsed' = elapsed + 1
    /\ UNCHANGED <<endpoints, pc, result, shutdown, evPending, dlPending, dlClosed,
                   uplinks, upClosed, cur, packet, downlink_rx1, downlink_rx2, ret>>

Rx1ResolveWith(r) ==
    /\ pc = "rx1_dispatch"
    /\ dispatch_resolves(r, elapsed)
    /\ LET s == rx1_resolved(cur, resolve(downlink_rx1, r), downlink_rx2) IN
         /\ pc' = s.pc
         /\ ret' = s.ret
         /\ downlink_rx1' = s.rx1
         /\ downlink_rx2' = s.rx2
    /\ elapsed' = 0
    /\ UNCHANGED <<endpoints, result, shutdown, evPending, dlPending, dlClosed, uplinks,
                   upClosed, cur, packet>>

Rx1Resolve == \E r \in DispatchResults : Rx1ResolveWith(r)

Rx2ResolveWith(r) ==
    /\ pc = "rx2_dispatch"
    /\ dispatch_resolves(r, elapsed)
    /\ downlink_rx2' = resolve(downlink_rx2, r)
    /\ ret' = rx2_resolved(r)
    /\ pc' = "downlink_ret"
    /\ elapsed' = 0
    /\ UNCHANGED <<endpoints, result, shutdown, evPending, dlPending, dlClosed, uplinks,
                   upClosed, cur, packet, downlink_rx1>>

Rx2Resolve == \E r \in DispatchResults : Rx2ResolveWith(r)

\* the timeout of the dispatch being awaited expires
TimeoutExpires == Rx1ResolveWith("Timeout") \/ Rx2ResolveWith("Timeout")

\* a loop that drops the handler's error
DownlinkReturn_ignore_err ==
    /\ pc = "downlink_ret"
    /\ pc' = "select"
    /\ cur' = NoItem
    /\ ret' = "none"
    /\ downlink_rx1' = NoSlot
    /\ downlink_rx2' = NoSlot
    /\ UNCHANGED <<elapsed, endpoints,
                   result, shutdown, evPending, dlPending, dlClosed, uplinks,
                   upClosed, packet>>

DownlinkReturn ==
    /\ pc = "downlink_ret"
    /\ pc' = IF ret = "Err" THEN "done" ELSE "select"
    /\ result' = IF ret = "Err" THEN "Err" ELSE result
    /\ cur' = NoItem
    /\ ret' = "none"
    /\ downlink_rx1' = NoSlot
    /\ downlink_rx2' = NoSlot
    /\ UNCHANGED <<elapsed, endpoints,
                   shutdown, evPending, dlPending, dlClosed, uplinks, upClosed,
                   packet>>

Next ==
    \/ Trigger
    \/ UdpArrive
    \/ DownlinkOffer
    \/ DownlinkSendersDropped
    \/ UplinkConsume
    \/ UplinkReceiverDropped
    \/ SelectShutdown
    \/ SelectEvent
    \/ UplinkSend
    \/ EventReturn
    \/ SelectDownlink
    \/ SelectDownlinkClosed
    \/ Continue
    \/ Tick
    \/ Rx1Resolve
    \/ Rx2Resolve
    \/ DownlinkReturn

Spec == Init /\ [][Next]_vars

\* The select picks among its ready branches at random, time passes and the
\* timeout of a dispatch expires; nothing makes the environment act.
FairSpec ==
    /\ Spec
    /\ SF_vars(SelectShutdown)
    /\ SF_vars(SelectEvent)
    /\ SF_vars(SelectDownlink)
    /\ SF_vars(SelectDownlinkClosed)
    /\ WF_vars(Continue)
    /\ WF_vars(UplinkSend)
    /\ WF_vars(EventReturn)
    /\ WF_vars(Tick)
    /\ WF_vars(TimeoutExpires)
    /\ WF_vars(DownlinkReturn)

TypeOK ==
    /\ pc \in {"select", "uplink_send", "event_ret", "rx1_dispatch", "rx2_dispatch",
               "downlink_ret", "closed_warn", "done"}
    /\ result \in {"running", "Ok", "Err"}
    /\ shutdown \in BOOLEAN
    /\ evPending \in 0..MaxPendingEvents
    /\ dlPending \in 0..MaxPendingDownlinks
    /\ dlClosed \in BOOLEAN
    /\ Len(uplinks) <= UplinkCap
    /\ upClosed \in BOOLEAN
    /\ cur \in Events \cup Downlinks \cup {NoItem}
    /\ ret \in {"none", "Ok", "Err"}
    /\ elapsed \in 0..DOWNLINK_TIMEOUT_SECS
    /\ pc \notin {"rx1_dispatch", "rx2_dispatch"} => elapsed = 0

----
\* Properties of the downlink dispatch.

InDownlink == cur.type = "downlink"
Rx1Attempted == downlink_rx1.attempts > 0
Rx2Touched == downlink_rx2.packet.present \/ downlink_rx2.attempts > 0
                \/ pc = "rx2_dispatch"
Rx1TimingRejected == downlink_rx1.result \in TimingRejections

\* C1: the rx2 slot is populated or dispatched only when the rx1 dispatch of
\* the same downlink returned TooEarly or TooLate.
C1_Rx2OnlyAfterTimingRejection == Rx2Touched => Rx1TimingRejected

C1_Witness ==
    /\ pc = "downlink_ret"
    /\ Rx1Attempted
    /\ downlink_rx1.result \in DispatchResults \ TimingRejections
    /\ ~Rx2Touched

\* C2 as stated: after a timing rejection of rx1 there is exactly one rx2
\* attempt, with the late frame.
C2_AlwaysOneRx2Attempt ==
    (pc = "downlink_ret" /\ Rx1TimingRejected) =>
        /\ downlink_rx2.attempts = 1
        /\ downlink_rx2.packet.late
        /\ ~downlink_rx1.packet.late

\* C2 amended: after a timing rejection of rx1 there is one rx2 attempt when
\* the late rendering yields a frame and none otherwise; the rx2 frame is the
\* late rendering and the rx1 frame the non-late one; no slot is dispatched
\* twice.
C2_OneRx2AttemptWhenLateFrame ==
    /\ downlink_rx1.attempts <= 1 /\ downlink_rx2.attempts <= 1
    /\ Rx1Attempted => downlink_rx1.packet.present /\ ~downlink_rx1.packet.late
    /\ (Rx1TimingRejected /\ pc \in {"rx2_dispatch", "downlink_ret"}) =>
          /\ downlink_rx2.attempts = (IF cur.rx2 = "frame" THEN 1 ELSE 0)
          /\ downlink_rx2.attempts = 1 =>
                downlink_rx2.packet.present /\ downlink_rx2.packet.late

C2_Witness ==
    /\ pc = "downlink_ret"
    /\ Rx1TimingRejected
    /\ downlink_rx2.attempts = 1
    /\ downlink_rx2.result # "none"
    /\ downlink_rx2.packet.late

\* C3: a downlink whose rx1 rendering yields no frame returns Ok with both
\* slots empty and undispatched, and the loop goes on.
C3_NoFrameNoTransmit ==
    /\ [](InDownlink /\ cur.rx1 = "none" =>
            /\ pc = "downlink_ret" /\ ret = "Ok" /\ result = "running"
            /\ ~Rx1Attempted /\ ~downlink_rx1.packet.present
            /\ ~Rx2Touched)
    /\ [][InDownlink /\ cur.rx1 = "none" /\ pc' # pc =>
            pc' = "select" /\ result' = "running"]_vars

C3_Witness == InDownlink /\ cur.rx1 = "none" /\ pc = "downlink_ret"

\* C4 as stated: whatever error the rx1 dispatch returns, handle_downlink
\* returns Ok.
C4_Rx1ErrorAlwaysOk ==
    (pc = "downlink_ret" /\ Rx1Attempted /\ downlink_rx1.result # "Ok") => ret = "Ok"

\* C4 amended: the error of a transmit attempt is never returned: once rx1
\* was dispatched handle_downlink returns Err only when rx1 was rejected for
\* timing and the late rendering failed; after an rx2 dispatch it returns Ok
\* whatever the result, and on Ok the loop goes on.
C4_TransmitErrorsAbsorbed ==
    /\ []((pc = "downlink_ret" /\ Rx1Attempted) =>
            /\ ret \in {"Ok", "Err"}
            /\ ret = "Err" <=> (Rx1TimingRejected /\ cur.rx2 = "error")
            /\ downlink_rx2.attempts > 0 => ret = "Ok")
    /\ [][pc = "downlink_ret" /\ ret = "Ok" /\ pc' # pc =>
            pc' = "select" /\ result' = "running"]_vars

C4_Witness ==
    /\ pc = "downlink_ret"
    /\ downlink_rx2.attempts = 1
    /\ downlink_rx2.result \in TimingRejections
    /\ ret = "Ok"

\* C5: a rendering error, at rx1 or at rx2 after a timing rejection, is
\* returned by handle_downlink and makes run return Err; at rx1 nothing has
\* been transmitted.
C5_RenderErrorTerminates ==
    /\ [](InDownlink /\ cur.rx1 = "error" =>
            pc = "downlink_ret" /\ ret = "Err" /\ ~Rx1Attempted /\ ~Rx2Touched)
    /\ []((pc = "downlink_ret" /\ Rx1TimingRejected /\ cur.rx2 = "error") =>
            ret = "Err" /\ ~Rx2Touched)
    /\ [][pc = "downlink_ret" /\ ret = "Err" /\ pc' # pc =>
            pc' = "done" /\ result' = "Err"]_vars

C5_Witness ==
    /\ pc = "done"
    /\ result = "Err"

----
\* Properties of the loop and of the uplink path.

\* C6 as stated: once the signal has fired, the select the loop is at or
\* comes to takes no event and no downlink.
C6_NothingHandledAfterShutdown ==
    [][shutdown /\ pc = "select" => pc' \in {"select", "done", "closed_warn"}]_vars

\* C6 amended: once the signal has fired, at every select the shutdown
\* branch is ready; taking it makes run return Ok at once, leaving pending
\* events and downlinks where they are; run returns Ok in no other way.
C6_ShutdownBranchReady ==
    /\ [](shutdown /\ pc = "select" => ENABLED SelectShutdown)
    /\ [][pc = "select" /\ pc' = "done" =>
            /\ shutdown
            /\ result' = "Ok"
            /\ UNCHANGED <<evPending, dlPending, uplinks, cur>>]_vars
    /\ [](result = "Ok" => shutdown /\ pc = "done")

C6_Witness ==
    /\ pc = "done"
    /\ result = "Ok"
    /\ evPending > 0
    /\ dlPending > 0

\* C7: the closed downlinks channel does not end run, and while it is closed
\* a waiting event is followed by the completion of an event handler, unless
\* run has returned.
C7_ClosedDownlinksEventsServed ==
    /\ [][pc = "closed_warn" /\ pc' # pc => pc' = "select" /\ result' = "running"]_vars
    /\ (dlClosed /\ evPending > 0) ~> (pc = "event_ret" \/ result # "running")

\* C8: with the uplinks channel full the send does not wait: the handler
\* that holds a packet for the channel can always go on.
C8_FullUplinkNeverWaits ==
    pc = "uplink_send" => ENABLED UplinkSend

IsForeign(e) == e.type = "PacketReceived" /\ e.rxpk \in {"longfi", "malformed"}
IsValidUplink(e) == e.type = "PacketReceived" /\ e.rxpk = "lorawan"
Enqueued == Len(uplinks') > Len(uplinks)

\* C9: a PacketReceived whose packet is longfi, or whose conversion fails,
\* enqueues nothing: the handler never reaches the send, the channel does not
\* grow while the event is handled, and no longfi packet is in the channel.
C9_ForeignNeverEnqueued ==
    /\ [](\A i \in 1..Len(uplinks) : uplinks[i].payload = "lorawan")
    /\ [](IsForeign(cur) => pc = "event_ret" /\ packet = NoItem)
    /\ [][IsForeign(cur) \/ IsForeign(cur') => ~Enqueued]_vars

C9_Witness ==
    /\ pc = "event_ret"
    /\ IsForeign(cur)
    /\ cur.rxpk = "longfi"

\* C10: a PacketReceived that converts to a non-longfi packet reaches the
\* send; with the channel open the send appends exactly that one packet,
\* tagged with the gateway_mac of the event, and no other step of the handler
\* enqueues anything.
C10_OneUplinkWithEventMac ==
    /\ [](IsValidUplink(cur) =>
            /\ pc \in {"uplink_send", "event_ret"}
            /\ pc = "uplink_send" => packet.gateway_mac = cur.gateway_mac)
    /\ [][IsValidUplink(cur') /\ ~IsValidUplink(cur) =>
            pc' = "uplink_send" /\ uplinks' = uplinks]_vars
    /\ [][IsValidUplink(cur) /\ pc = "uplink_send" /\ pc' = "event_ret" /\ ~upClosed =>
            uplinks' = Append(uplinks, [type |-> "uplink",
                                        gateway_mac |-> cur.gateway_mac,
                                        payload |-> cur.rxpk])]_vars
    /\ [][IsValidUplink(cur) /\ ~(pc = "uplink_send" /\ pc' = "event_ret") =>
            ~Enqueued]_vars

C10_Witness ==
    /\ pc = "event_ret"
    /\ IsValidUplink(cur)
    /\ ~upClosed
    /\ Len(uplinks) > 0
    /\ uplinks[Len(uplinks)].gateway_mac = cur.gateway_mac
    /\ cur.gateway_mac = "mac_b"

----
\* Properties of timing, serialization and cancellation.

Dispatching == pc \in {"rx1_dispatch", "rx2_dispatch"}
InFlight(slot) == slot.attempts > 0 /\ slot.result = "none"

\* C11: a dispatch that is still pending after DOWNLINK_TIMEOUT_SECS, in
\* either window, ends as a Timeout that handle_downlink absorbs; a dispatch
\* never waits longer, a downlink makes at most two attempts, and every
\* dispatch is followed by the return of handle_downlink.
C11_DispatchTimeBounded ==
    /\ [](Dispatching => elapsed <= DOWNLINK_TIMEOUT_SECS)
    /\ [][Dispatching /\ elapsed = DOWNLINK_TIMEOUT_SECS /\ pc' # pc =>
            /\ pc' = "downlink_ret" /\ ret' = "Ok"
            /\ "Timeout" \in {downlink_rx1'.result, downlink_rx2'.result}]_vars
    /\ [](downlink_rx1.attempts + downlink_rx2.attempts <= 2)
    /\ Dispatching ~> (pc = "downlink_ret")

C11_Witness ==
    /\ pc = "downlink_ret"
    /\ downlink_rx1.result = "TooEarly"
    /\ downlink_rx2.result = "Timeout"
    /\ ret = "Ok"

\* C12: at most one transmit attempt is in flight, the rx2 attempt starts
\* only after the rx1 attempt has resolved, a step of the loop takes at most
\* one item, and no item is taken while a handler is running.
C12_SerializedHandling ==
    /\ [](~(InFlight(downlink_rx1) /\ InFlight(downlink_rx2)))
    /\ [](downlink_rx2.attempts > 0 => downlink_rx1.result # "none")
    /\ []((pc = "rx1_dispatch" <=> InFlight(downlink_rx1))
            /\ (pc = "rx2_dispatch" <=> InFlight(downlink_rx2)))
    /\ [][cur' # cur /\ cur' # NoItem => pc = "select" /\ cur = NoItem]_vars
    /\ [][evPending' < evPending =>
            evPending' + 1 = evPending /\ dlPending' >= dlPending]_vars
    /\ [][dlPending' < dlPending =>
            dlPending' + 1 = dlPending /\ evPending' >= evPending]_vars

C12_Witness ==
    /\ pc = "rx2_dispatch"
    /\ InFlight(downlink_rx2)
    /\ downlink_rx1.result \in TimingRejections
    /\ evPending > 0
    /\ dlPending > 0

HandlerStep(from, to) ==
    \/ from = "uplink_send" /\ to = "event_ret"
    \/ from = "rx1_dispatch" /\ to \in {"rx2_dispatch", "downlink_ret"}
    \/ from = "rx2_dispatch" /\ to = "downlink_ret"
    \/ from \in {"event_ret", "downlink_ret"} /\ to = "select"
    \/ from = "downlink_ret" /\ to = "done" /\ ret = "Err"

----
\* KeyedUri (src/src/keyed_uri.rs): deserialization of a uri and a public key.

UriStrings == {"https://example.com", "http://router:8080", "not a uri"}
KeyStrings == {"key_a", "key_b", "not_a_key", "key_a_bad_checksum"}
NoValue == [uri |-> "none", public_key |-> "none"]

\* http_serde::uri::deserialize
parse_uri(u) ==
    IF u = "not a uri" THEN [ok |-> FALSE, uri |-> "none"]
    ELSE [ok |-> TRUE, uri |-> <<"Uri", u>>]

\* str::parse::<PublicKey>: the key, or an error whose Display describes the
\* failure
parse_public_key(k) ==
    IF k \in {"key_a", "key_b"} THEN [ok |-> TRUE, key |-> <<"PublicKey", k>>, err |-> "none"]
    ELSE IF k = "key_a_bad_checksum"
    THEN [ok |-> FALSE, key |-> "none", err |-> "invalid checksum"]
    ELSE [ok |-> FALSE, key |-> "none", err |-> "decode error"]

\* deserialize_pubkey: the message is a sequence of its formatted parts
deserialize_pubkey(key_string) ==
    LET r == parse_public_key(key_string) IN
    IF r.ok THEN [ok |-> TRUE, key |-> r.key, error |-> <<>>]
    ELSE [ok |-> FALSE, key |-> "none",
          error |-> <<"invalid public key: \"", r.err, "\"">>]

\* #[derive(Deserialize)] for KeyedUri
deserialize_keyed_uri(input) ==
    LET u == parse_uri(input.uri)
        k == deserialize_pubkey(input.public_key)
    IN  IF ~u.ok THEN [ok |-> FALSE, value |-> NoValue, error |-> <<"invalid uri">>]
        ELSE IF ~k.ok THEN [ok |-> FALSE, value |-> NoValue, error |-> k.error]
        ELSE [ok |-> TRUE, value |-> [uri |-> u.uri, public_key |-> k.key],
              error |-> <<>>]

\* the configuration loader deserializes one more endpoint
Deserialize ==
    /\ Len(endpoints) < MaxEndpoints
    /\ \E u \in UriStrings, k \in KeyStrings :
         LET input == [uri |-> u, public_key |-> k] IN
         endpoints' = Append(endpoints,
                             [input |-> input, out |-> deserialize_keyed_uri(input)])
    /\ UNCHANGED <<pc, result, shutdown, evPending, dlPending, dlClosed, uplinks,
                   upClosed, cur, packet, downlink_rx1, downlink_rx2, ret, elapsed>>

KeyedUriSpec == Init /\ [][Deserialize]_vars

Contains(message, str) == \E i \in 1..Len(message) : message[i] = str

\* C14: with a well-formed uri the deserialization succeeds exactly when the
\* key string parses, the value then holds the parsed uri and key, and for an
\* invalid key string no value is built and the error message contains that
\* string.
C14_InvalidKeyErrorNamesString ==
    \A i \in 1..Len(endpoints) :
        LET e == endpoints[i]
            key == parse_public_key(e.input.public_key)
        IN  parse_uri(e.input.uri).ok =>
              /\ e.out.ok <=> key.ok
              /\ e.out.ok => /\ e.out.value.uri = parse_uri(e.input.uri).uri
                             /\ e.out.value.public_key = key.key
              /\ ~key.ok => /\ e.out.value = NoValue
                            /\ Contains(e.out.error, e.input.public_key)

----
\* Properties of addressing, of the other events and of the ways run ends.

SlotFor(slot, mac) == slot.mac = mac /\ (slot.packet.present => slot.packet.mac = mac)

\* C15: while a downlink is handled both slots, and the frames set in them,
\* carry the gateway_mac of that downlink; outside a downlink handler no slot
\* exists.
C15_SlotsAddressedToDownlink ==
    /\ InDownlink => /\ SlotFor(downlink_rx1, cur.gateway_mac)
                     /\ SlotFor(downlink_rx2, cur.gateway_mac)
    /\ ~InDownlink => downlink_rx1 = NoSlot /\ downlink_rx2 = NoSlot

C15_Witness ==
    /\ pc = "rx2_dispatch"
    /\ cur.gateway_mac = "mac_b"
    /\ downlink_rx2.packet.mac = "mac_b"
    /\ Len(uplinks) > 0
    /\ uplinks[1].gateway_mac = "mac_a"

IsLogOnly(e) ==
    e.type \in {"UnableToParseUdpFrame", "NewClient", "UpdateClient",
                "NoClientWithMac", "RawPacket"}

\* C16: an event other than PacketReceived is only logged: its handler
\* returns Ok without a send and without a slot, the uplinks channel does not
\* grow while it is handled, and handle_udp_event returns Ok for every event,
\* after which the loop goes on.
C16_OtherEventsOnlyLogged ==
    /\ [](IsLogOnly(cur) =>
            /\ pc = "event_ret" /\ ret = "Ok" /\ packet = NoItem
            /\ downlink_rx1 = NoSlot /\ downlink_rx2 = NoSlot)
    /\ [][IsLogOnly(cur) \/ IsLogOnly(cur') => ~Enqueued]_vars
    /\ [](pc = "event_ret" => ret = "Ok")
    /\ [][pc = "event_ret" /\ pc' # pc => pc' = "select" /\ result' = "running"]_vars

C16_Witness ==
    /\ pc = "event_ret"
    /\ cur.type = "RawPacket"
    /\ cur.raw = "PushData_rxpk"

\* C17: with the receiver of the uplinks channel dropped the send resolves
\* at once, nothing is enqueued, handle_udp_event returns Ok and the loop goes
\* on: a waiting event or downlink is later handled unless run has returned.
C17_ClosedUplinkDropsSilently ==
    /\ [](pc = "uplink_send" /\ upClosed => ENABLED UplinkSend)
    /\ [][pc = "uplink_send" /\ upClosed /\ pc' # pc =>
            /\ pc' = "event_ret" /\ ret' = "Ok"
            /\ uplinks' = uplinks /\ result' = "running"]_vars
    /\ [][upClosed /\ pc = "event_ret" /\ pc' # pc => pc' = "select"]_vars
    /\ (upClosed /\ evPending > 0) ~> (pc = "event_ret" \/ result # "running")
    /\ (upClosed /\ dlPending > 0) ~> (pc = "downlink_ret" \/ result # "running")

C17_Witness ==
    /\ upClosed
    /\ pc = "event_ret"
    /\ IsValidUplink(cur)
    /\ ret = "Ok"

RenderFailed ==
    /\ InDownlink
    /\ cur.rx1 = "error" \/ (Rx1TimingRejected /\ cur.rx2 = "error")

\* C18: run returns Ok only from the select with the signal fired, and Err
\* only from handle_downlink after a rendering failure; nothing else ends it,
\* and what it returned does not change.
C18_TwoWaysToReturn ==
    /\ [][result = "running" /\ result' = "Ok" => pc = "select" /\ shutdown]_vars
    /\ [][result = "running" /\ result' = "Err" =>
            pc = "downlink_ret" /\ RenderFailed]_vars
    /\ [][result # "running" => result' = result /\ pc' = pc]_vars
    /\ [](pc = "done" <=> result # "running")

C18_Witness ==
    /\ pc = "done"
    /\ result = "Ok"
    /\ dlClosed
    /\ upClosed

----
\* Properties of the select.

\* C19: while the signal has not fired, a waiting downlink is followed by the
\* start of a downlink handler and a waiting event by the completion of an
\* event handler, unless the signal fires or run returns.
C19_NoStarvation ==
    /\ (~shutdown /\ dlPending > 0) ~>
          (pc \in {"rx1_dispatch", "downlink_ret"} \/ shutdown \/ result # "running")
    /\ (~shutdown /\ evPending > 0) ~>
          (pc = "event_ret" \/ shutdown \/ result # "running")

\* C20: an event or a downlink leaves its queue only by one step of the
\* select that hands exactly that one item to its handler; the branches that
\* lose, and the shutdown and closed-channel branches, take nothing; a slot
\* is dispatched at most once; and the uplinks channel grows only by the
\* packet of the event in hand, appended at its tail.
C20_NoLossNoDuplication ==
    /\ [][evPending' < evPending =>
            /\ evPending' + 1 = evPending /\ dlPending' = dlPending
            /\ pc = "select" /\ cur = NoItem /\ cur' \in Events]_vars
    /\ [][dlPending' < dlPending =>
            /\ dlPending' + 1 = dlPending /\ evPending' = evPending
            /\ pc = "select" /\ cur = NoItem /\ cur' \in Downlinks
            /\ pc' \in {"rx1_dispatch", "downlink_ret"}]_vars
    /\ [][cur' # cur /\ cur' \in Events => evPending' + 1 = evPending]_vars
    /\ [][cur' # cur /\ cur' \in Downlinks => dlPending' + 1 = dlPending]_vars
    /\ [][pc = "select" /\ pc' \in {"done", "closed_warn"} =>
            UNCHANGED <<evPending, dlPending, uplinks>>]_vars
    /\ [](downlink_rx1.attempts <= 1 /\ downlink_rx2.attempts <= 1)
    /\ [][Enqueued =>
            /\ IsValidUplink(cur)
            /\ uplinks' = Append(uplinks, [type |-> "uplink",
                                           gateway_mac |-> cur.gateway_mac,
                                           payload |-> cur.rxpk])]_vars

C20_Witness ==
    /\ pc = "event_ret"
    /\ IsValidUplink(cur)
    /\ cur.gateway_mac = "mac_b"
    /\ Len(uplinks) = 2
    /\ uplinks[1].gateway_mac = "mac_a"
    /\ uplinks[2].gateway_mac = "mac_b"
    /\ dlPending > 0

====
